---- MODULE Spec2Model ----
(***************************************************************************)
(* A model of dashboard.py, a Streamlit script that loads a semicolon      *)
(* separated titer/assay file once per session and renders four metrics,   *)
(* five predefined chart blocks and one custom chart block.                *)
(*                                                                         *)
(* Streamlit reruns the whole script on every user interaction, so every   *)
(* action of the model is "the user changes one thing in the UI, then the  *)
(* script runs from its first line to its last (or to the first uncaught   *)
(* exception)".  Tables are pandas DataFrames: a sequence of column names  *)
(* and a sequence of rows, each row a function from column name to cell.   *)
(***************************************************************************)
EXTENDS Integers, Sequences, FiniteSets, TLC

VARIABLES
    uploaded_file,   \* the file held by st.sidebar.file_uploader, or NoFile
    loaded_data,     \* st.session_state.loaded_data: NoTable or a table
    loadCalls,       \* how many times load_data has been called in the session
    widgets,         \* the widget-state store: block name -> widget values
    out,             \* what the last script run rendered
    steps            \* user interactions so far

vars == <<uploaded_file, loaded_data, loadCalls, widgets, out, steps>>

----------------------------------------------------------------------------
(* Bounds of the model *)

\* longest file (in data rows) the user uploads
MaxRows == 2
\* user interactions (uploads, widget changes, reruns) in one session
MaxInteractions == 3

----------------------------------------------------------------------------
(* Cells, rows and tables *)

\* pandas' NaN for a text cell and for a numeric cell, NaT for a date cell
NaNText == "NaN"
NaN == 0 - 1
NaT == 0

RequiredColumns ==
    <<"Testdate", "Assay", "Result", "GMT", "Age Days", "Age Weeks",
      "Min Titer", "Max Titer", "Mean Titer">>

TextColumns == {"Assay", "Result"}

Range(s) == {s[i] : i \in DOMAIN s}

IndexOf(s, v) == CHOOSE i \in DOMAIN s : s[i] = v /\ \A j \in 1..(i - 1) : s[j] # v

HasColumn(df, c) == c \in Range(df.columns)

\* None: no table has a column set without Testdate, no file an empty header
NoTable == [columns |-> <<>>, rows |-> <<>>]
NoFile == [header |-> <<>>, rows |-> <<>>]

\* a row restricted to the columns cols
Project(row, cols) == [c \in Range(cols) |-> row[c]]

RECURSIVE SumSeq(_)
SumSeq(s) == IF s = <<>> THEN 0 ELSE Head(s) + SumSeq(Tail(s))

RECURSIVE Gcd(_, _)
Gcd(a, b) == IF b = 0 THEN a ELSE Gcd(b, a % b)

----------------------------------------------------------------------------
(* load_data *)

DaysInMonth(m, y) ==
    IF m \in {4, 6, 9, 11} THEN 30
    ELSE IF m = 2 THEN (IF y % 4 = 0 /\ (y % 100 # 0 \/ y % 400 = 0) THEN 29 ELSE 28)
    ELSE 31

\* pd.to_datetime(text, format='%d/%m/%Y') of one cell.  A date text is the
\* tuple <<separator, first field, second field, third field>>, the empty
\* cell is <<>>.  The value of a date is a day number that grows with the
\* calendar.
ParseDate(t) ==
    IF t = <<>> THEN [ok |-> TRUE, val |-> NaT]
    ELSE IF t[1] # "/" \/ t[3] \notin 1..12 \/ t[4] \notin 1..9999
         THEN [ok |-> FALSE, val |-> NaT]
    ELSE IF t[2] \notin 1..DaysInMonth(t[3], t[4])
         THEN [ok |-> FALSE, val |-> NaT]
    ELSE [ok |-> TRUE, val |-> (t[4] - 2023) * 372 + (t[3] - 1) * 31 + t[2]]

\* the column names pd.read_csv gives: a blank header cell becomes "Unnamed: 0"
ReadCsvName(c) == IF c = "" THEN "Unnamed: 0" ELSE c

IsUnnamed(c) == c \in {"Unnamed: 0", "Unnamed: 0.1"}

\* load_data(uploaded_file): [ok, df]; ok = FALSE is a raised exception
load_data(file) ==
    LET named == [i \in DOMAIN file.header |-> ReadCsvName(file.header[i])]
        kept  == SelectSeq(named, LAMBDA c : ~IsUnnamed(c))
    IN  IF "Testdate" \notin Range(kept)
        THEN [ok |-> FALSE, df |-> NoTable]
        ELSE IF \E i \in DOMAIN file.rows : ~ParseDate(file.rows[i]["Testdate"]).ok
        THEN [ok |-> FALSE, df |-> NoTable]
        ELSE [ok |-> TRUE,
              df |-> [columns |-> kept,
                      rows |-> [i \in DOMAIN file.rows |->
                                   [c \in Range(kept) |->
                                       IF c = "Testdate"
                                       THEN ParseDate(file.rows[i][c]).val
                                       ELSE file.rows[i][c]]]]]

----------------------------------------------------------------------------
(* The widgets of a chart block: select_param, select_grouping, date_slider *)

XAxisOptions == <<"Age Days", "Age Weeks", "Testdate", "Assay">>
YAxisOptions == <<"Mean Titer", "Min Titer", "Max Titer", "GMT", "Results Count">>
ColorOptions == <<"Assay", "Result">>
ChartTypes == <<"Line Chart", "Scatter Plot", "Bar Chart", "Box Plot", "Violin Plot">>

\* select_param: the selectboxes hold an index into their option list
select_param(w) ==
    [x_axis |-> XAxisOptions[w.x + 1], y_axis |-> YAxisOptions[w.y + 1]]

\* the option list of the 'Group data by' multiselect
GroupOptions(y_axis) ==
    LET options == <<"Testdate", "GMT", "Assay", "Result">>
    IN  IF y_axis = "Results Count" THEN options \o <<"Result">> ELSE options

\* select_grouping: the multiselect holds the indices of the chosen options in
\* the order they were chosen
select_grouping(w, y_axis) ==
    LET options == GroupOptions(y_axis)
    IN  [group_by |-> [i \in DOMAIN w.group |-> options[w.group[i] + 1]],
         color_by |-> ColorOptions[w.color + 1]]

\* the dates of a table that are not NaT
Dates(df) == {df.rows[i]["Testdate"] : i \in DOMAIN df.rows} \ {NaT}

MinDate(df) == IF Dates(df) = {} THEN NaT
               ELSE CHOOSE d \in Dates(df) : \A e \in Dates(df) : d <= e
MaxDate(df) == IF Dates(df) = {} THEN NaT
               ELSE CHOOSE d \in Dates(df) : \A e \in Dates(df) : e <= d

\* date_slider: [ok, lo, hi].  The slider is drawn only when the x-axis is
\* Testdate; it cannot be drawn over NaT bounds (ok = FALSE: it raises).  An
\* untouched slider holds <<>> and returns its default, the full bounds.
date_slider(df, w, x_axis) ==
    LET min_date == MinDate(df)
        max_date == MaxDate(df)
    IN  IF x_axis = "Testdate"
        THEN IF min_date = NaT
             THEN [ok |-> FALSE, lo |-> NaT, hi |-> NaT]
             ELSE IF w.range = <<>>
                  THEN [ok |-> TRUE, lo |-> min_date, hi |-> max_date]
                  ELSE [ok |-> TRUE, lo |-> w.range[1], hi |-> w.range[2]]
        ELSE [ok |-> TRUE, lo |-> min_date, hi |-> max_date]

\* df[df['Testdate'].dt.date.between(lo, hi)]: a comparison with NaT, on
\* either side, is False
FilterByDate(df, lo, hi) ==
    [columns |-> df.columns,
     rows |-> SelectSeq(df.rows, LAMBDA r :
                 /\ r["Testdate"] # NaT /\ lo # NaT /\ hi # NaT
                 /\ lo <= r["Testdate"] /\ r["Testdate"] <= hi)]

----------------------------------------------------------------------------
(* pandas groupby, as lines 140, 142, 176 and 179 use it *)

\* the five columns the predefined charts average
MeanColumns == <<"Age Days", "Age Weeks", "Min Titer", "Max Titer", "Mean Titer">>

IsNull(c, v) ==
    IF c \in TextColumns THEN v = NaNText
    ELSE IF c = "Testdate" THEN v = NaT
    ELSE v = NaN

KeyOf(row, keys) == [i \in DOMAIN keys |-> row[keys[i]]]

\* the sort order of the values of a column: numbers and dates by value, text
\* alphabetically
TextOrder == <<"A", "B", "NaN", "Neg", "Pos">>
RankOf(c, v) == IF c \in TextColumns THEN IndexOf(TextOrder, v) ELSE v

\* k1 sorts before k2 (lexicographic, in the order of the keys)
KeyLess(keys, k1, k2) ==
    \E i \in DOMAIN keys :
        /\ RankOf(keys[i], k1[i]) < RankOf(keys[i], k2[i])
        /\ \A j \in 1..(i - 1) : k1[j] = k2[j]

RECURSIVE SortKeys(_, _)
SortKeys(keys, K) ==
    IF K = {} THEN <<>>
    ELSE LET m == CHOOSE k \in K : \A k2 \in K : ~KeyLess(keys, k2, k)
         IN  <<m>> \o SortKeys(keys, K \ {m})

\* groupby drops the rows with a null in any key (dropna=True, the default)
GroupedRows(df, keys) ==
    SelectSeq(df.rows, LAMBDA r : \A i \in DOMAIN keys : ~IsNull(keys[i], r[keys[i]]))

\* the group keys of a table, sorted (sort=True, the default)
GroupKeys(df, keys) ==
    LET rows == GroupedRows(df, keys)
    IN  SortKeys(keys, {KeyOf(rows[i], keys) : i \in DOMAIN rows})

\* the rows of one group, in table order
GroupOf(df, keys, k) == SelectSeq(GroupedRows(df, keys), LAMBDA r : KeyOf(r, keys) = k)

\* the row a key contributes to the result of reset_index()
KeyCells(keys, k) == [c \in Range(keys) |-> k[IndexOf(keys, c)]]

\* groupby cannot be built over a missing column; reset_index() cannot insert
\* the same key column twice
GroupByRaises(df, keys) ==
    \/ \E i \in DOMAIN keys : ~HasColumn(df, keys[i])
    \/ \E i, j \in DOMAIN keys : i # j /\ keys[i] = keys[j]

\* a variant of GroupSize: reset_index() without name=, the count column keeps
\* the name pandas gives it
GroupSize_unnamed(df, keys) ==
    IF GroupByRaises(df, keys) THEN [ok |-> FALSE, df |-> NoTable]
    ELSE LET ks == GroupKeys(df, keys)
         IN  [ok |-> TRUE,
              df |-> [columns |-> keys \o <<"size">>,
                      rows |-> [n \in DOMAIN ks |->
                                   KeyCells(keys, ks[n]) @@
                                   ("size" :> Len(GroupOf(df, keys, ks[n])))]]]

\* df.groupby(keys).size().reset_index(name='Results Count')
GroupSize(df, keys) ==
    IF GroupByRaises(df, keys) THEN [ok |-> FALSE, df |-> NoTable]
    ELSE LET ks == GroupKeys(df, keys)
         IN  [ok |-> TRUE,
              df |-> [columns |-> keys \o <<"Results Count">>,
                      rows |-> [n \in DOMAIN ks |->
                                   KeyCells(keys, ks[n]) @@
                                   ("Results Count" :> Len(GroupOf(df, keys, ks[n])))]]]

\* 'mean' of a column over the rows of a group: NaN cells are skipped; the
\* value is the exact fraction in lowest terms
MeanOf(rows, c) ==
    LET cells == [i \in DOMAIN rows |-> rows[i][c]]
        vals  == SelectSeq(cells, LAMBDA v : ~IsNull(c, v))
        g     == Gcd(SumSeq(vals), Len(vals))
    IN  IF vals = <<>> THEN [num |-> 0, den |-> 0]
        ELSE [num |-> SumSeq(vals) \div g, den |-> Len(vals) \div g]

\* df.groupby(keys).agg({c: 'mean' for c in cols}).reset_index(): agg raises on
\* a column that is missing, that is a grouping key, or that holds text
GroupMean(df, keys, cols) ==
    IF \/ GroupByRaises(df, keys)
       \/ \E i \in DOMAIN cols : \/ ~HasColumn(df, cols[i])
                                 \/ cols[i] \in Range(keys)
                                 \/ cols[i] \in TextColumns
    THEN [ok |-> FALSE, df |-> NoTable]
    ELSE LET ks == GroupKeys(df, keys)
         IN  [ok |-> TRUE,
              df |-> [columns |-> keys \o cols,
                      rows |-> [n \in DOMAIN ks |->
                                   KeyCells(keys, ks[n]) @@
                                   [c \in Range(cols) |->
                                       MeanOf(GroupOf(df, keys, ks[n]), c)]]]]

----------------------------------------------------------------------------
(* The chart constructors: line_chart .. bar_chart *)

\* plotly express raises when a column it is asked to draw is not in the table
PxFigure(kind, df, x_axis, y_axis, color_by, fac) ==
    IF /\ HasColumn(df, x_axis) /\ HasColumn(df, y_axis) /\ HasColumn(df, color_by)
       /\ (fac = "None" \/ HasColumn(df, fac))
    THEN [ok |-> TRUE, kind |-> kind, facet |-> fac]
    ELSE [ok |-> FALSE, kind |-> kind, facet |-> fac]

line_chart(df, x_axis, y_axis, color_by) == PxFigure("line", df, x_axis, y_axis, color_by, "None")
scatter_plot(df, x_axis, y_axis, color_by) == PxFigure("scatter", df, x_axis, y_axis, color_by, "None")
box_plot(df, x_axis, y_axis, color_by) == PxFigure("box", df, x_axis, y_axis, color_by, "None")
violin_plot(df, x_axis, y_axis, color_by) == PxFigure("violin", df, x_axis, y_axis, color_by, "None")

bar_chart(df, x_axis, y_axis, color_by) ==
    LET fac == IF x_axis # "Assay" THEN "Assay" ELSE "None"
    IN  PxFigure("bar", df, x_axis, y_axis, color_by, fac)

\* chart_func(df, x_axis, y_axis, color_by) for the function the caller passed
ChartFunc(func, df, x_axis, y_axis, color_by) ==
    CASE func = "line_chart" -> line_chart(df, x_axis, y_axis, color_by)
      [] func = "scatter_plot" -> scatter_plot(df, x_axis, y_axis, color_by)
      [] func = "box_plot" -> box_plot(df, x_axis, y_axis, color_by)
      [] func = "violin_plot" -> violin_plot(df, x_axis, y_axis, color_by)
      [] func = "bar_chart" -> bar_chart(df, x_axis, y_axis, color_by)

----------------------------------------------------------------------------
(* create_chart and custom_chart *)

\* What a chart block leaves behind:
\*   kind      "hidden", "figure", "warning", or "raised" while an exception
\*             is in flight
\*   input     the table the block was called with
\*   lo, hi    the bounds date_slider returned, filtered the table the date
\*             filter left (sliced = TRUE once line 137 has run)
\*   data      the table handed to the chart constructor (reached = TRUE)
\*   caller_df the table the caller's variable df names after the call
BlockResult(kind, input, data, reached, x_axis, y_axis, group_by, color_by, caller_df) ==
    [kind |-> kind, input |-> input, sliced |-> FALSE, lo |-> NaT, hi |-> NaT,
     filtered |-> NoTable, data |-> data, reached |-> reached,
     x_axis |-> x_axis, y_axis |-> y_axis, group_by |-> group_by,
     color_by |-> color_by, caller_df |-> caller_df]

NotRun == BlockResult("notrun", NoTable, NoTable, FALSE, "", "", <<>>, "", NoTable)

\* show_chart is False: nothing is selected, filtered or drawn
Hidden(df) == BlockResult("hidden", df, NoTable, FALSE, "", "", <<>>, "", df)

\* a variant of Rebind: the date filter drops the rows in place, from the
\* table the caller holds
Rebind_inplace(df, new) == IF new.columns = df.columns THEN new ELSE df

\* `df = <new table>` inside a function binds the function's own name: the
\* table the caller passed is the one the caller still holds
Rebind(df, new) == df

\* a variant of Aggregate without the test of line 138: a count is taken
\* whenever the y-axis is 'Results Count'
Aggregate_ungated(df, group_by, y_axis) ==
    IF y_axis = "Results Count"
    THEN GroupSize(df, group_by)
    ELSE IF group_by # <<>>
         THEN GroupMean(df, group_by, MeanColumns)
         ELSE [ok |-> TRUE, df |-> df]

\* lines 138-142: the aggregation step of a predefined chart
Aggregate(df, group_by, y_axis) ==
    IF group_by # <<>>
    THEN IF y_axis = "Results Count"
         THEN GroupSize(df, group_by)
         ELSE GroupMean(df, group_by, MeanColumns)
    ELSE [ok |-> TRUE, df |-> df]

\* lines 144-146: the figure is drawn, or the chart constructor raised
Plotted(df, p, g, data, fig) ==
    BlockResult(IF fig.ok THEN "figure" ELSE "raised", df, data, TRUE,
                p.x_axis, p.y_axis, g.group_by, g.color_by, Rebind(df, data))

\* lines 138-144: after the aggregation, the chart constructor is called
Aggregated(df, p, g, flt, agg, chart_func) ==
    IF ~agg.ok
    THEN BlockResult("raised", df, NoTable, FALSE, p.x_axis, p.y_axis, g.group_by,
                     g.color_by, Rebind(df, flt))
    ELSE Plotted(df, p, g, agg.df,
                 ChartFunc(chart_func, agg.df, p.x_axis, p.y_axis, g.color_by))

\* line 137 has run: the bounds and the filtered table are on record
Sliced(r, sl, flt) == [r EXCEPT !.sliced = TRUE, !.lo = sl.lo, !.hi = sl.hi, !.filtered = flt]

\* line 137: the date filter, then the aggregation
Filtered(df, p, g, sl, flt, chart_func) ==
    Sliced(Aggregated(df, p, g, flt, Aggregate(flt, g.group_by, p.y_axis), chart_func),
           sl, flt)

\* lines 132-137: after the date slider
Slid(df, p, g, sl, chart_func) ==
    IF ~sl.ok
    THEN BlockResult("raised", df, NoTable, FALSE, p.x_axis, p.y_axis, g.group_by,
                     g.color_by, df)
    ELSE Filtered(df, p, g, sl, FilterByDate(df, sl.lo, sl.hi), chart_func)

\* lines 131-132: after select_param
Selected(df, w, p, chart_func) ==
    Slid(df, p, select_grouping(w, p.y_axis), date_slider(df, w, p.x_axis), chart_func)

\* lines 127-146: the body of the try of create_chart
create_chart_try(df, w, chart_func) ==
    IF ~w.show THEN Hidden(df) ELSE Selected(df, w, select_param(w), chart_func)

\* a variant of ExceptException: no handler, the exception leaves the block
ExceptException_absent(r) == r

\* lines 147-149 and 193-195: except Exception: st.warning(...); return
ExceptException(r) == IF r.kind = "raised" THEN [r EXCEPT !.kind = "warning"] ELSE r

create_chart(df, w, chart_func) == ExceptException(create_chart_try(df, w, chart_func))

\* lines 181-190: the chart constructor chosen by the chart type
CustomChartFunc(chart) ==
    CASE chart = "Line Chart" -> "line_chart"
      [] chart = "Bar Chart" -> "bar_chart"
      [] chart = "Box Plot" -> "box_plot"
      [] chart = "Violin Plot" -> "violin_plot"
      [] chart = "Scatter Plot" -> "scatter_plot"

\* lines 163-167: the selections of the custom chart, each over all columns
select_custom(all_columns, w) ==
    [chart |-> ChartTypes[w.chart + 1],
     x_axis |-> all_columns[w.x + 1],
     y_axis |-> all_columns[w.y + 1],
     group_by |-> [i \in DOMAIN w.group |-> all_columns[w.group[i] + 1]],
     color_by |-> all_columns[w.color + 1]]

\* lines 174-179: the aggregation step of the custom chart; a count replaces
\* the y-axis by 'Results Count'
AggregateCustom(df, group_by, y_axis) ==
    IF group_by # <<>>
    THEN IF y_axis = "Result"
         THEN GroupSize(df, group_by)
         ELSE GroupMean(df, group_by, <<y_axis>>)
    ELSE [ok |-> TRUE, df |-> df]

CustomYAxis(group_by, y_axis) ==
    IF group_by # <<>> /\ y_axis = "Result" THEN "Results Count" ELSE y_axis

\* lines 173-192: the date filter, the aggregation and the chart of custom_chart
CustomAggregated(df, c, flt, agg) ==
    IF ~agg.ok
    THEN BlockResult("raised", df, NoTable, FALSE, c.x_axis, c.y_axis, c.group_by,
                     c.color_by, Rebind(df, flt))
    ELSE Plotted(df, [x_axis |-> c.x_axis, y_axis |-> CustomYAxis(c.group_by, c.y_axis)],
                 c, agg.df,
                 ChartFunc(CustomChartFunc(c.chart), agg.df, c.x_axis,
                           CustomYAxis(c.group_by, c.y_axis), c.color_by))

CustomFiltered(df, c, sl, flt) ==
    Sliced(CustomAggregated(df, c, flt, AggregateCustom(flt, c.group_by, c.y_axis)),
           sl, flt)

CustomSlid(df, c, sl) ==
    IF ~sl.ok
    THEN BlockResult("raised", df, NoTable, FALSE, c.x_axis, c.y_axis, c.group_by,
                     c.color_by, df)
    ELSE CustomFiltered(df, c, sl, FilterByDate(df, sl.lo, sl.hi))

CustomSelected(df, w, c) == CustomSlid(df, c, date_slider(df, w, c.x_axis))

\* lines 159-192: the body of the try of custom_chart
custom_chart_try(df, w) ==
    IF ~w.show THEN Hidden(df) ELSE CustomSelected(df, w, select_custom(df.columns, w))

custom_chart(df, w) == ExceptException(custom_chart_try(df, w))

----------------------------------------------------------------------------
(* The script: lines 229-263 *)

Blocks == <<"Box plot", "Violin plot", "Line chart", "Bar chart", "Scatter plot",
            "Custom chart">>
Predefined == {"Box plot", "Violin plot", "Line chart", "Bar chart", "Scatter plot"}

\* the arguments of the five create_chart calls (lines 254-262); group None
\* is the multiselect's "no default", the empty selection
BlockArgs ==
    [b \in Predefined |->
        CASE b = "Box plot" ->
               [x |-> 2, y |-> 3, group |-> <<>>, color |-> 0, func |-> "box_plot"]
          [] b = "Violin plot" ->
               [x |-> 2, y |-> 3, group |-> <<>>, color |-> 0, func |-> "violin_plot"]
          [] b = "Line chart" ->
               [x |-> 2, y |-> 3, group |-> <<"Testdate", "GMT", "Assay">>, color |-> 0,
                func |-> "line_chart"]
          [] b = "Bar chart" ->
               [x |-> 2, y |-> 4, group |-> <<"Assay", "Testdate", "Result">>, color |-> 1,
                func |-> "bar_chart"]
          [] b = "Scatter plot" ->
               [x |-> 0, y |-> 3, group |-> <<"Testdate", "GMT", "Assay">>, color |-> 0,
                func |-> "scatter_plot"]]

\* the value a multiselect takes from its default: the index of the first
\* option equal to each default value
DefaultGroup(b, y) ==
    LET options == GroupOptions(YAxisOptions[y + 1])
        dflt == BlockArgs[b].group
    IN  [i \in DOMAIN dflt |-> IndexOf(options, dflt[i]) - 1]

\* the widget values of a block no one has touched
DefaultWidgets(b) ==
    IF b \in Predefined
    THEN [show |-> TRUE, chart |-> 0, x |-> BlockArgs[b].x, y |-> BlockArgs[b].y,
          group |-> DefaultGroup(b, BlockArgs[b].y), color |-> BlockArgs[b].color,
          range |-> <<>>]
    ELSE [show |-> FALSE, chart |-> 0, x |-> 0, y |-> 0, group |-> <<>>, color |-> 0,
          range |-> <<>>]

\* a variant of LoadGuard without the test of session_state.loaded_data
LoadGuard_anyfile(uploaded, loaded) == uploaded # NoFile

\* line 233: uploaded_file is not None and st.session_state.loaded_data is None
LoadGuard(uploaded, loaded) == uploaded # NoFile /\ loaded = NoTable

\* df[c].nunique(), .min(), .max(): NaN cells do not count
Cells(df, c) == {df.rows[i][c] : i \in DOMAIN df.rows} \ {IF c \in TextColumns THEN NaNText ELSE NaN}
ColMin(df, c) == IF Cells(df, c) = {} THEN NaN
                 ELSE CHOOSE v \in Cells(df, c) : \A u \in Cells(df, c) : v <= u
ColMax(df, c) == IF Cells(df, c) = {} THEN NaN
                 ELSE CHOOSE v \in Cells(df, c) : \A u \in Cells(df, c) : u <= v

\* lines 243-247: the metrics rendered before the first one that raises
Metrics(df) ==
    LET samples == <<Len(df.rows)>>
    IN  IF ~HasColumn(df, "Assay") THEN [ok |-> FALSE, shown |-> samples]
        ELSE IF ~HasColumn(df, "GMT")
             THEN [ok |-> FALSE, shown |-> samples \o <<Cardinality(Cells(df, "Assay"))>>]
        ELSE [ok |-> TRUE,
              shown |-> samples \o <<Cardinality(Cells(df, "Assay")),
                                     ColMin(df, "GMT"), ColMax(df, "GMT")>>]

BlockCall(b, df, w) ==
    IF b = "Custom chart" THEN custom_chart(df, w[b])
    ELSE create_chart(df, w[b], BlockArgs[b].func)

NoBlocks == [i \in DOMAIN Blocks |-> NotRun]

\* lines 252-263: the six calls in order, each with the caller's df; an
\* exception that leaves a call ends the script
RECURSIVE RunBlocks(_, _, _)
Prepend(r, rest) == [results |-> <<r>> \o rest.results, df |-> rest.df]
AfterBlock(i, r, w) ==
    IF r.kind = "raised"
    THEN [results |-> <<r>> \o [j \in 1..(Len(Blocks) - i) |-> NotRun], df |-> r.caller_df]
    ELSE Prepend(r, RunBlocks(i + 1, r.caller_df, w))
RunBlocks(i, df, w) ==
    IF i > Len(Blocks) THEN [results |-> <<>>, df |-> df]
    ELSE AfterBlock(i, BlockCall(Blocks[i], df, w), w)

\* What one run of the script leaves behind.  stage tells how far it got:
\* "idle" (no table), "load_error", "metrics_error", "block_error" (uncaught
\* exceptions) or "done"; loaded is session_state.loaded_data after the run,
\* calls the number of load_data calls the run made.
RunResult(stage, loaded, calls, metrics, blocks) ==
    [stage |-> stage, loaded |-> loaded, calls |-> calls, metrics |-> metrics,
     blocks |-> blocks]

\* lines 252-263
Charts(calls, m, run) ==
    RunResult(IF \E i \in DOMAIN Blocks : run.results[i].kind = "raised"
              THEN "block_error" ELSE "done",
              run.df, calls, m.shown, run.results)

\* lines 238-263: nothing is drawn without a table; a metric that raises
\* ends the script
Dashboard(df, calls, m, w) ==
    IF df = NoTable THEN RunResult("idle", df, calls, <<>>, NoBlocks)
    ELSE IF ~m.ok THEN RunResult("metrics_error", df, calls, m.shown, NoBlocks)
    ELSE Charts(calls, m, RunBlocks(1, df, w))

\* lines 233-236: load_data raised, or its table is stored
Loaded(loaded, ld, w) ==
    IF ~ld.ok THEN RunResult("load_error", loaded, 1, <<>>, NoBlocks)
    ELSE Dashboard(ld.df, 1, Metrics(ld.df), w)

\* lines 229-263: one run of the script
Script(uploaded, loaded, w) ==
    IF LoadGuard(uploaded, loaded)
    THEN Loaded(loaded, load_data(uploaded), w)
    ELSE Dashboard(loaded, 0, Metrics(loaded), w)

----------------------------------------------------------------------------
(* The files a user uploads *)

FullHeader == RequiredColumns

\* one line of a file: a date text, an assay, a result; the numeric cells
\* follow the result (a positive sample: GMT 10, Mean Titer 5; a negative
\* one: GMT 20, Mean Titer 7)
RawRow(date, assay, result) ==
    LET pos == result = "Pos"
    IN  ("" :> 0) @@ ("Testdate" :> date) @@ ("Assay" :> assay) @@ ("Result" :> result) @@
        ("GMT" :> IF pos THEN 10 ELSE 20) @@
        ("Age Days" :> IF pos THEN 21 ELSE 28) @@
        ("Age Weeks" :> IF pos THEN 3 ELSE 4) @@
        ("Min Titer" :> IF pos THEN 4 ELSE 6) @@
        ("Max Titer" :> IF pos THEN 8 ELSE 9) @@
        ("Mean Titer" :> IF pos THEN 5 ELSE 7)

Jan1 == <<"/", 1, 1, 2023>>
Jan2 == <<"/", 2, 1, 2023>>
NoDate == <<>>
IsoDate == <<"-", 2023, 1, 2>>

\* the lines files are made of: well-formed ones, one with no assay, one with
\* no date, and one whose date is not day/month/year
GoodRows ==
    {RawRow(Jan1, "A", "Pos"), RawRow(Jan1, "A", "Neg"), RawRow(Jan2, "B", "Pos")}
NullRows == {RawRow(Jan1, NaNText, "Pos"), RawRow(NoDate, "A", "Neg")}
BadRows == {RawRow(IsoDate, "A", "Pos")}
RawRows == GoodRows \cup NullRows \cup BadRows

File(header, rows) ==
    [header |-> header, rows |-> [i \in DOMAIN rows |-> Project(rows[i], header)]]

SeqsUpTo(S, n) == UNION {[1..k -> S] : k \in 0..n}

\* every file of at most MaxRows lines with the full header
FullFiles == {File(FullHeader, rows) : rows \in SeqsUpTo(RawRows, MaxRows)}

\* the headers of the files of a session: the full one, the full one after a
\* blank index column, and the full one less each required column
Without(s, c) == SelectSeq(s, LAMBDA e : e # c)
Headers ==
    {FullHeader, <<"">> \o FullHeader} \cup {Without(FullHeader, c) : c \in Range(FullHeader)}

SampleRows == <<RawRow(Jan1, "A", "Pos"), RawRow(Jan1, "A", "Neg")>>

\* the files uploaded in a session: the two sample lines under every header,
\* and every one-line file and the empty file under the full header
SessionFiles ==
    {File(h, SampleRows) : h \in Headers} \cup
    {File(FullHeader, <<r>>) : r \in RawRows} \cup {File(FullHeader, <<>>)}

----------------------------------------------------------------------------
(* The session: every interaction reruns the script *)

InitWidgets == [b \in Range(Blocks) |-> DefaultWidgets(b)]

NoOutput == [stage |-> "idle", calls |-> 0, metrics |-> <<>>, blocks |-> NoBlocks]

Init ==
    /\ uploaded_file = NoFile
    /\ loaded_data = NoTable
    /\ loadCalls = 0
    /\ widgets = InitWidgets
    /\ out = NoOutput
    /\ steps = 0

\* what the last run drew, and the number of load_data calls it made
Output(r) == [stage |-> r.stage, calls |-> r.calls, metrics |-> r.metrics, blocks |-> r.blocks]

\* the script runs with the uploader holding file f and the widget store w
Commit(f, w, r) ==
    /\ uploaded_file' = f
    /\ widgets' = w
    /\ loaded_data' = r.loaded
    /\ loadCalls' = loadCalls + r.calls
    /\ out' = Output(r)
    /\ steps' = steps + 1

Rerun(f, w) == Commit(f, w, Script(f, loaded_data, w))

\* the user puts a file into the uploader
Upload ==
    /\ steps < MaxInteractions
    /\ \E f \in SessionFiles : f # uploaded_file /\ Rerun(f, widgets)

\* the user removes the file from the uploader
RemoveFile ==
    /\ steps < MaxInteractions
    /\ uploaded_file # NoFile
    /\ Rerun(NoFile, widgets)

\* the user reruns the script without changing anything
Refresh ==
    /\ steps < MaxInteractions
    /\ Rerun(uploaded_file, widgets)

\* A widget the last run did not draw loses its value.  Hiding a block
\* leaves only its checkbox drawn.
ToggleShow ==
    /\ steps < MaxInteractions
    /\ out.stage = "done"
    /\ \E b \in Range(Blocks) :
          Rerun(uploaded_file,
                [widgets EXCEPT ![b] = [DefaultWidgets(b) EXCEPT !.show = ~widgets[b].show]])

\* the widgets of block b were drawn by the last run (the selectboxes and the
\* multiselect come before anything in the block that can raise)
Drawn(b) ==
    /\ out.stage = "done"
    /\ out.blocks[IndexOf(Blocks, b)].kind \in {"figure", "warning"}

\* the option list of a selectbox of block b
AxisOptions(b, options) == IF b = "Custom chart" THEN loaded_data.columns ELSE options

GroupOptionsOf(b) ==
    IF b = "Custom chart" THEN loaded_data.columns
    ELSE GroupOptions(YAxisOptions[widgets[b].y + 1])

XAxisOf(b) == AxisOptions(b, XAxisOptions)[widgets[b].x + 1]

\* the user picks another x-axis; the date slider is drawn only for Testdate,
\* so a range chosen before is lost
SetXAxis ==
    /\ steps < MaxInteractions
    /\ \E b \in Range(Blocks) :
          /\ Drawn(b)
          /\ \E i \in 0..(Len(AxisOptions(b, XAxisOptions)) - 1) :
                /\ i # widgets[b].x
                /\ Rerun(uploaded_file,
                         [widgets EXCEPT ![b].x = i, ![b].range = <<>>])

\* the user picks another y-axis; a multiselect whose option list changes is
\* a new widget and starts from its default
SetYAxis ==
    /\ steps < MaxInteractions
    /\ \E b \in Range(Blocks) :
          /\ Drawn(b)
          /\ \E i \in 0..(Len(AxisOptions(b, YAxisOptions)) - 1) :
                /\ i # widgets[b].y
                /\ Rerun(uploaded_file,
                         [widgets EXCEPT ![b].y = i,
                                         ![b].group =
                                            IF b \in Predefined /\
                                               GroupOptions(YAxisOptions[i + 1]) #
                                               GroupOptions(YAxisOptions[widgets[b].y + 1])
                                            THEN DefaultGroup(b, i)
                                            ELSE widgets[b].group])

\* the user adds an option that is not selected yet to 'Group data by'
AddGroup ==
    /\ steps < MaxInteractions
    /\ \E b \in Range(Blocks) :
          /\ Drawn(b)
          /\ \E i \in 0..(Len(GroupOptionsOf(b)) - 1) :
                /\ i \notin Range(widgets[b].group)
                /\ Rerun(uploaded_file,
                         [widgets EXCEPT ![b].group = Append(widgets[b].group, i)])

\* the user removes a selected option from 'Group data by'
RemoveGroup ==
    /\ steps < MaxInteractions
    /\ \E b \in Range(Blocks) :
          /\ Drawn(b)
          /\ \E k \in DOMAIN widgets[b].group :
                Rerun(uploaded_file,
                      [widgets EXCEPT ![b].group =
                          SubSeq(widgets[b].group, 1, k - 1) \o
                          SubSeq(widgets[b].group, k + 1, Len(widgets[b].group))])

\* the user picks another 'Color data by'
SetColor ==
    /\ steps < MaxInteractions
    /\ \E b \in Range(Blocks) :
          /\ Drawn(b)
          /\ \E i \in 0..(Len(AxisOptions(b, ColorOptions)) - 1) :
                /\ i # widgets[b].color
                /\ Rerun(uploaded_file, [widgets EXCEPT ![b].color = i])

\* the sub-ranges a date slider over the dates of df offers, other than the
\* full one, which is <<>>
SliderRanges(df) ==
    {<<lo, hi>> : lo \in MinDate(df)..MaxDate(df), hi \in MinDate(df)..MaxDate(df)} \cap
    {r \in (Nat \X Nat) : r[1] <= r[2] /\ r # <<MinDate(df), MaxDate(df)>>}

\* the user moves the date slider, which is drawn when the x-axis is Testdate
\* and the table has a date
SetRange ==
    /\ steps < MaxInteractions
    /\ \E b \in Range(Blocks) :
          /\ Drawn(b)
          /\ XAxisOf(b) = "Testdate"
          /\ MinDate(loaded_data) # NaT
          /\ \E r \in SliderRanges(loaded_data) \cup {<<>>} :
                /\ r # widgets[b].range
                /\ Rerun(uploaded_file, [widgets EXCEPT ![b].range = r])

\* the user picks another chart type for the custom chart
SetChartType ==
    /\ steps < MaxInteractions
    /\ Drawn("Custom chart")
    /\ \E i \in 0..(Len(ChartTypes) - 1) :
          /\ i # widgets["Custom chart"].chart
          /\ Rerun(uploaded_file, [widgets EXCEPT !["Custom chart"].chart = i])

Next == Upload \/ RemoveFile \/ Refresh \/ ToggleShow

Spec == Init /\ [][Next]_vars

----------------------------------------------------------------------------
(* A session in which a table is loaded and the user changes the widgets *)

\* user interactions with the widgets of the chart blocks
MaxEdits == 1

\* the files of these sessions: the sample, a file with two dates, a file
\* with a missing assay and a missing date, and a file without a column the
\* charts average
EditFiles ==
    {File(FullHeader, SampleRows),
     File(FullHeader, <<RawRow(Jan1, "A", "Pos"), RawRow(Jan2, "B", "Pos")>>),
     File(FullHeader, <<RawRow(Jan1, NaNText, "Pos"), RawRow(NoDate, "A", "Neg")>>),
     File(Without(FullHeader, "Age Days"), SampleRows)}


\* the session after the upload of f with the widget values w
LoadedSession(f, w, left) ==
    /\ uploaded_file = f
    /\ loaded_data = load_data(f).df
    /\ loadCalls = 1
    /\ widgets = w
    /\ out = Output(Script(f, load_data(f).df, w))
    /\ steps = MaxInteractions - left

InitEdit ==
    \E f \in EditFiles, custom \in BOOLEAN :
        LoadedSession(f, [InitWidgets EXCEPT !["Custom chart"].show = custom], MaxEdits)

NextEdit ==
    \/ SetXAxis \/ SetYAxis \/ AddGroup \/ RemoveGroup \/ SetColor \/ SetRange
    \/ SetChartType \/ ToggleShow

SpecEdit == InitEdit /\ [][NextEdit]_vars

----------------------------------------------------------------------------
(* create_chart over every table and every selection *)

\* the most grouping fields the user selects
MaxGroup == 2

\* the selections of at most k of n options: their indices, without
\* repetition, in the order chosen
Selections(n, k) ==
    {g \in SeqsUpTo(0..(n - 1), k) : \A i, j \in DOMAIN g : i # j => g[i] # g[j]}

\* the date ranges the slider of a block can hold
RangesOf(df, x) ==
    IF XAxisOptions[x + 1] = "Testdate" /\ MinDate(df) # NaT
    THEN SliderRanges(df) \cup {<<>>}
    ELSE {<<>>}

\* the widget values of predefined block b over table df
Configs(df, b) ==
    UNION {
        {[show |-> TRUE, chart |-> 0, x |-> x, y |-> y, group |-> g,
          color |-> BlockArgs[b].color, range |-> r] :
            g \in Selections(Len(GroupOptions(YAxisOptions[y + 1])), MaxGroup),
            r \in RangesOf(df, x)} :
        x \in 0..(Len(XAxisOptions) - 1), y \in 0..(Len(YAxisOptions) - 1)}

\* every block but b is hidden
Only(b, w) ==
    [c \in Range(Blocks) |-> IF c = b THEN w ELSE [DefaultWidgets(c) EXCEPT !.show = FALSE]]

\* the blocks whose create_chart call is explored
ChartBlocks == {"Bar chart"}

\* a table is loaded, one predefined block is shown and holds any selection,
\* and the script is about to run
InitChart ==
    \E f \in FullFiles :
        /\ load_data(f).ok
        /\ \E b \in ChartBlocks :
              \E w \in Configs(load_data(f).df, b) :
                  /\ uploaded_file = f
                  /\ loaded_data = load_data(f).df
                  /\ loadCalls = 1
                  /\ widgets = Only(b, w)
                  /\ out = NoOutput
                  /\ steps = MaxInteractions - 1

NextChart == Refresh

SpecChart == InitChart /\ [][NextChart]_vars

----------------------------------------------------------------------------
(* Properties *)

\* the blocks the last run entered, and what each left behind
Ran(i) == out.blocks[i].kind \notin {"notrun", "hidden"}
PredefinedRan(i) == Blocks[i] \in Predefined /\ Ran(i)

\* the number of rows of a table whose cells under keys are k, a missing
\* cell being a value like any other
RowsWithKey(df, keys, k) == Len(SelectSeq(df.rows, LAMBDA r : KeyOf(r, keys) = k))

\* the key combinations the rows of a table hold
KeysIn(df, keys) == {KeyOf(df.rows[n], keys) : n \in DOMAIN df.rows}

\* the table has one row for every key combination of the rows of from
OneRowPerKey(data, from, keys) ==
    /\ KeysIn(data, keys) = KeysIn(from, keys)
    /\ Len(data.rows) = Cardinality(KeysIn(from, keys))

\* the sum of column c over the rows of a table whose cells under keys are k
SumWithKey(df, keys, k, c) ==
    SumSeq([n \in DOMAIN SelectSeq(df.rows, LAMBDA r : KeyOf(r, keys) = k) |->
               SelectSeq(df.rows, LAMBDA r : KeyOf(r, keys) = k)[n][c]])

\* the fraction m is the arithmetic mean of column c over those rows
IsMeanWithKey(m, df, keys, k, c) ==
    /\ m.den > 0
    /\ m.num * RowsWithKey(df, keys, k) = m.den * SumWithKey(df, keys, k, c)

FourGroupFields == <<"Testdate", "GMT", "Assay", "Result">>

\* a table with every required column and a dated row
ValidTable(df) ==
    /\ \A c \in Range(RequiredColumns) : HasColumn(df, c)
    /\ Dates(df) # {}

\* no widget of a predefined block has been touched
AtDefaults == \A b \in Predefined : widgets[b] = DefaultWidgets(b)

----------------------------------------------------------------------------
\* C1: a failure inside a chart block is caught by that block.  After every
\* run over a loaded table whose metrics can be drawn, the run has gone to
\* its end, the four metrics are those of the table, every block is hidden,
\* a figure or a warning, and what each block leaves is what its call alone
\* leaves over the loaded table with every other block at its default,
\* whatever the other blocks did.
C1_FailureStaysInBlock ==
    (loaded_data # NoTable /\ Metrics(loaded_data).ok) =>
        /\ out.stage = "done"
        /\ out.metrics = Metrics(loaded_data).shown
        /\ \A i \in DOMAIN Blocks :
              /\ out.blocks[i].kind \in {"hidden", "figure", "warning"}
              /\ out.blocks[i] =
                    BlockCall(Blocks[i], loaded_data,
                              [InitWidgets EXCEPT ![Blocks[i]] = widgets[Blocks[i]]])

\* over a table with every required column, a selection of the user has made
\* a block render the warning, and a block called after it has drawn a figure
C1_Witness ==
    /\ ValidTable(loaded_data)
    /\ out.stage = "done"
    /\ Len(out.metrics) = 4
    /\ \E i, j \in DOMAIN Blocks :
          /\ i < j
          /\ out.blocks[i].kind = "warning"
          /\ out.blocks[j].kind = "figure"

----------------------------------------------------------------------------
\* C2: once session_state.loaded_data holds a table, a run of the script,
\* whatever the uploader holds, leaves the table as it is and does not call
\* load_data.
C2_LoadedOnce ==
    [][loaded_data # NoTable =>
          /\ loaded_data' = loaded_data
          /\ loadCalls' = loadCalls
          /\ out'.calls = 0]_vars

\* a table is held, the script has run with another file in the uploader,
\* and load_data has been called once in the session
C2_Witness ==
    /\ loaded_data # NoTable
    /\ uploaded_file # NoFile
    /\ load_data(uploaded_file).ok
    /\ load_data(uploaded_file).df # loaded_data
    /\ loadCalls = 1
    /\ out.calls = 0

----------------------------------------------------------------------------
\* C3: a load error is fatal to the load.  When the run that called
\* load_data was given a file with a Testdate that is not day/month/year or
\* without one of the required columns, the session holds no table and the
\* run has drawn no metric and no chart block.
LoadError(file) ==
    \/ \E c \in Range(RequiredColumns) : c \notin Range(file.header)
    \/ /\ "Testdate" \in Range(file.header)
       /\ \E i \in DOMAIN file.rows : ~ParseDate(file.rows[i]["Testdate"]).ok

C3_LoadErrorIsFatal ==
    (out.calls = 1 /\ LoadError(uploaded_file)) =>
        /\ loaded_data = NoTable
        /\ out.metrics = <<>>
        /\ \A i \in DOMAIN Blocks : out.blocks[i].kind = "notrun"

----------------------------------------------------------------------------
\* C4: a run of the script over a loaded table leaves the stored table as it
\* was, and every chart block of the run is called with that table.
C4_BaseTableUntouched ==
    [][loaded_data # NoTable =>
          /\ loaded_data' = loaded_data
          /\ \A i \in DOMAIN Blocks :
                out'.blocks[i].kind # "notrun" => out'.blocks[i].input = loaded_data]_vars

\* after a selection of the user a block has drawn a table that is not the
\* stored one, and a block called after it has run
C4_Witness ==
    /\ loaded_data # NoTable
    /\ ~AtDefaults
    /\ \E i, j \in DOMAIN Blocks :
          /\ i < j
          /\ out.blocks[i].reached
          /\ out.blocks[i].data # loaded_data
          /\ Ran(j)
          /\ out.blocks[j].input = loaded_data

----------------------------------------------------------------------------
\* C5: with y-axis 'Results Count' and a non-empty group_by, the aggregated
\* table of a predefined block has one row for every key combination of the
\* date-filtered rows (a missing cell included), each row counts the
\* filtered rows of its key, and the counts add up to the number of filtered
\* rows.
C5_CountsCoverEveryRow ==
    \A i \in DOMAIN Blocks :
        (/\ PredefinedRan(i)
         /\ out.blocks[i].sliced
         /\ out.blocks[i].y_axis = "Results Count"
         /\ out.blocks[i].group_by # <<>>) =>
            /\ out.blocks[i].reached
            /\ OneRowPerKey(out.blocks[i].data, out.blocks[i].filtered, out.blocks[i].group_by)
            /\ \A n \in DOMAIN out.blocks[i].data.rows :
                  out.blocks[i].data.rows[n]["Results Count"] =
                      RowsWithKey(out.blocks[i].filtered, out.blocks[i].group_by,
                                  KeyOf(out.blocks[i].data.rows[n], out.blocks[i].group_by))
            /\ SumSeq([n \in DOMAIN out.blocks[i].data.rows |->
                          out.blocks[i].data.rows[n]["Results Count"]])
                  = Len(out.blocks[i].filtered.rows)

----------------------------------------------------------------------------
\* C6: when the x-axis of a chart block is not 'Testdate', date_slider
\* returns the least and the greatest date of the table and the date filter
\* removes no row, in every loaded table.
C6_NoFilterOffTestdate ==
    \A i \in DOMAIN Blocks :
        (Ran(i) /\ out.blocks[i].sliced /\ out.blocks[i].x_axis # "Testdate") =>
            /\ out.blocks[i].lo = MinDate(out.blocks[i].input)
            /\ out.blocks[i].hi = MaxDate(out.blocks[i].input)
            /\ out.blocks[i].filtered.rows = out.blocks[i].input.rows

----------------------------------------------------------------------------
\* C7: when group_by is empty the aggregation of a predefined block is the
\* identity for every y-axis: the chart constructor is called, with the
\* date-filtered table, rows and columns; no 'Results Count' column is made.
C7_NoGroupingIsIdentity ==
    \A i \in DOMAIN Blocks :
        (PredefinedRan(i) /\ out.blocks[i].sliced /\ out.blocks[i].group_by = <<>>) =>
            /\ out.blocks[i].reached
            /\ out.blocks[i].data = out.blocks[i].filtered
            /\ ~HasColumn(out.blocks[i].data, "Results Count")

\* a predefined block with y-axis 'Results Count' and no grouping has
\* handed two rows to its chart constructor
C7_Witness ==
    \E i \in DOMAIN Blocks :
        /\ PredefinedRan(i)
        /\ out.blocks[i].y_axis = "Results Count"
        /\ out.blocks[i].group_by = <<>>
        /\ out.blocks[i].reached
        /\ Len(out.blocks[i].data.rows) = 2

----------------------------------------------------------------------------
\* C8: for every y-axis the options select_grouping offers are the four
\* fields Testdate, GMT, Assay, Result, each once, and the group_by it
\* returns holds no field twice.
C8_FourGroupOptions ==
    \A i \in DOMAIN Blocks :
        PredefinedRan(i) =>
            /\ GroupOptions(out.blocks[i].y_axis) = FourGroupFields
            /\ \A m, n \in DOMAIN out.blocks[i].group_by :
                  m # n => out.blocks[i].group_by[m] # out.blocks[i].group_by[n]

----------------------------------------------------------------------------
\* C9: with a non-empty group_by and a y-axis other than 'Results Count',
\* the aggregated table of a predefined block has one row for every key
\* combination of the date-filtered rows, and in each row Age Days, Age
\* Weeks, Min Titer, Max Titer and Mean Titer are the arithmetic means of
\* the column over the filtered rows of that key.
C9_MeansPerKey ==
    \A i \in DOMAIN Blocks :
        (/\ PredefinedRan(i)
         /\ out.blocks[i].sliced
         /\ out.blocks[i].y_axis # "Results Count"
         /\ out.blocks[i].group_by # <<>>) =>
            /\ out.blocks[i].reached
            /\ OneRowPerKey(out.blocks[i].data, out.blocks[i].filtered, out.blocks[i].group_by)
            /\ \A n \in DOMAIN out.blocks[i].data.rows :
                  \A c \in Range(MeanColumns) :
                      IsMeanWithKey(out.blocks[i].data.rows[n][c], out.blocks[i].filtered,
                                    out.blocks[i].group_by,
                                    KeyOf(out.blocks[i].data.rows[n], out.blocks[i].group_by), c)

----------------------------------------------------------------------------
====
